---- MODULE Spec2Model ----
(***************************************************************************)
(* Model of the SelfAdjustingI2C controller (src/src/SelfAdjusting_I2C.h   *)
(* and src/src/SelfAdjusting_I2C.cpp): the dynamic ranges, the metrics and *)
(* scoring, the decision engine, the recovery tiers and the device         *)
(* registry.  Each public operation is one atomic action (the controller   *)
(* is single-threaded and every handler runs to completion).               *)
(*                                                                         *)
(* Numbers.  Times are milliseconds (millis()); transaction times are      *)
(* microseconds (micros()).  Scores are floats in the code; here they are  *)
(* fixed-point integers in thousandths of a point (50000 = 50.0).  The     *)
(* step <-> value conversions use 32-bit floats in the code; they are      *)
(* reproduced here bit-exactly on (mantissa, exponent) pairs.              *)
(***************************************************************************)
EXTENDS Integers, Sequences, FiniteSets, TLC

(* ---------------------------- program constants ------------------------ *)
LEARNING_WINDOW_SIZE == 10
ERROR_THRESHOLD == 3
PERFORMANCE_SAMPLES == 5
MAX_DEVICES == 16
DYNAMIC_RANGE_STEPS == 20
ERROR_HISTORY_SIZE == 10
DEFAULT_COOLDOWN == 5000
EMERGENCY_COOLDOWN == 15000
DEFAULT_ADAPTATION_RATE == 5

ERROR_NONE == 0
ERROR_TIMEOUT == 1
ERROR_NACK_ADDRESS == 2
ERROR_NACK_DATA == 3
ERROR_OTHER == 4

(* ------------------------------- bounds -------------------------------- *)
\* the clock stops advancing at MaxTime (ms)
MaxTime == 5000
\* the callers make at most MaxOps calls in a run (clock ticks not counted)
MaxOps == 5
\* long runs: a transaction is issued only while the current epoch counts
\* fewer than MaxLongTotal transactions and the addressed device fewer than
\* MaxLongDevTotal, and it fails only while fewer than MaxLongFails have failed
MaxLongTotal == 26
MaxLongDevTotal == 30
MaxLongFails == 3
\* the clock of a run with long pauses
MaxLongTime == 30000

\* bus addresses used by the callers
Addrs == {1, 2}
FirstAddr == CHOOSE a \in Addrs : \A b \in Addrs : a <= b
\* millis() advances by one of these between operations
TickSteps == {5000}
\* elapsed micros() measured around a bus transaction
TxTimes == {500}
\* outcome codes of Wire.endTransmission: 0 success, 2 NACK on address,
\* 5 a code outside 1..4 (timeout code of newer cores)
WireResults == {0, 2, 5}
\* byte counts returned by Wire.requestFrom
RequestResults == {0, 1}
\* values handed to setClockSpeed / setDeviceSpecificConfig
ClockInputs == {400000, 3500000}
RiseInputs == {40, 250}
\* arguments of setAdaptationRate and setCooldownPeriod
RateInputs == {0, 7, 11}
CooldownInputs == {0, 5000}

(* ----------------------- 32-bit float arithmetic ----------------------- *)
\* A positive float is [m |-> mantissa, k |-> k] with value m / 2^k.
Pow2(n) == 2 ^ n

RoundHalfEven(x, d) ==
    LET q == x \div d
        r == x % d
    IN IF 2 * r > d \/ (2 * r = d /\ q % 2 = 1) THEN q + 1 ELSE q

RECURSIVE NormShift(_, _, _)
NormShift(n, d, k) ==
    IF n * Pow2(k) >= Pow2(23) * d THEN k ELSE NormShift(n, d, k + 1)

\* (float)n / d rounded to the nearest float, for 0 < n/d < 2^24
F32Div(n, d) ==
    LET k == NormShift(n, d, 0)
    IN [m |-> RoundHalfEven(n * Pow2(k), d), k |-> k]

RECURSIVE DropShift(_, _)
DropShift(p, j) == IF p < Pow2(24) * Pow2(j) THEN j ELSE DropShift(p, j + 1)

\* (uint32_t)(step * f): the float product rounded to 24 bits, truncated
F32MulTrunc(step, f) ==
    LET p == step * f.m
        j == DropShift(p, 0)
        r == RoundHalfEven(p, Pow2(j))
    IN (r * Pow2(j)) \div Pow2(f.k)

RECURSIVE Log2Floor(_)
Log2Floor(n) == IF n < 2 THEN 0 ELSE 1 + Log2Floor(n \div 2)

\* (uint8_t)((float)v / f): the float quotient rounded to 24 bits, truncated
F32DivTrunc(v, f) ==
    LET x == v * Pow2(f.k)
        fl == x \div f.m
        diff == (fl + 1) * f.m - x
        roundsUp == /\ fl >= 1
                    /\ diff < 32
                    /\ diff * Pow2(24 - Log2Floor(fl)) <= f.m
    IN IF roundsUp THEN fl + 1 ELSE fl

Min(a, b) == IF a < b THEN a ELSE b
Max(a, b) == IF a > b THEN a ELSE b

(* ---------------------------- dynamic ranges --------------------------- *)
calculateValueFromStep_noOffset(range, step) ==
    LET st == IF step >= DYNAMIC_RANGE_STEPS THEN DYNAMIC_RANGE_STEPS - 1 ELSE step
    IN F32MulTrunc(st, range.step_size)

calculateValueFromStep(range, step) ==
    LET st == IF step >= DYNAMIC_RANGE_STEPS THEN DYNAMIC_RANGE_STEPS - 1 ELSE step
    IN range.min_value + F32MulTrunc(st, range.step_size)

calculateStepFromValue(range, value) ==
    IF value <= range.min_value THEN 0
    ELSE IF value >= range.max_value THEN DYNAMIC_RANGE_STEPS - 1
    ELSE Min(F32DivTrunc(value - range.min_value, range.step_size),
             DYNAMIC_RANGE_STEPS - 1)

updateDynamicRange(range, newStep) ==
    IF newStep < DYNAMIC_RANGE_STEPS
    THEN [range EXCEPT !.current_step = newStep,
                       !.current_value = calculateValueFromStep(range, newStep)]
    ELSE range

isStepValid(step) == step < DYNAMIC_RANGE_STEPS

\* the static initialisers of the two ranges, before initializeDynamicRanges
clockSpeedRangeStatic ==
    [min_value |-> 75000, max_value |-> 3500000, current_value |-> 100000,
     default_value |-> 100000, current_step |-> 1, optimal_step |-> 1,
     step_size |-> [m |-> 0, k |-> 0]]

riseTimeRangeStatic ==
    [min_value |-> 40, max_value |-> 250, current_value |-> 125,
     default_value |-> 125, current_step |-> 8, optimal_step |-> 8,
     step_size |-> [m |-> 0, k |-> 0]]

initializeDynamicRange(range) ==
    LET sized == [range EXCEPT !.step_size =
                      F32Div(range.max_value - range.min_value, DYNAMIC_RANGE_STEPS - 1)]
        step == calculateStepFromValue(sized, sized.default_value)
    IN [sized EXCEPT !.current_step = step, !.optimal_step = step]

(* -------------------------------- state -------------------------------- *)
VARIABLES
    currentConfig,        \* I2CConfig: the active configuration and its metrics
    bestConfig,           \* I2CConfig: the best-known configuration
    performanceHistory,   \* I2CPerformanceMetrics[LEARNING_WINDOW_SIZE]
    deviceConfigs,        \* DeviceConfig[0..deviceCount-1], in insertion order
    historyIndex,
    consecutiveErrors,
    lastAdjustmentTime,
    adjustmentCooldown,
    lastErrorTime,
    learningMode,
    emergencyRecovery,
    adaptiveMode,
    performanceScore,
    adaptationRate,
    currentDeviceAddress,
    lastError,
    errorHistory,         \* uint8_t[10], indexed 0..9
    errorHistoryIndex,
    clockSpeedRange,      \* the two file-level DynamicRange objects
    riseTimeRange,
    now,                  \* millis()
    last,                 \* observation: what the last operation did
    freshFails,           \* observation: failed transactions since construction,
                          \* -1 once anything else than a failure has happened
    ops                   \* observation: calls made so far

ctl == <<currentConfig, bestConfig, performanceHistory, deviceConfigs, historyIndex,
         consecutiveErrors, lastAdjustmentTime, adjustmentCooldown, lastErrorTime,
         learningMode, emergencyRecovery, adaptiveMode, performanceScore,
         adaptationRate, currentDeviceAddress, lastError, errorHistory,
         errorHistoryIndex, clockSpeedRange, riseTimeRange>>

vars == <<currentConfig, bestConfig, performanceHistory, deviceConfigs, historyIndex,
          consecutiveErrors, lastAdjustmentTime, adjustmentCooldown, lastErrorTime,
          learningMode, emergencyRecovery, adaptiveMode, performanceScore,
          adaptationRate, currentDeviceAddress, lastError, errorHistory,
          errorHistoryIndex, clockSpeedRange, riseTimeRange, now, last, freshFails, ops>>

deviceCount == Len(deviceConfigs)

\* memset(&metrics, 0, sizeof(I2CPerformanceMetrics))
ZeroMetrics ==
    [successfulTransactions |-> 0, failedTransactions |-> 0,
     totalTransactionTime |-> 0, averageTransactionTime |-> 0,
     errorRate |-> 0, stabilityScore |-> 0, lastUpdateTime |-> 0]

\* The controller's fields as one record; the handlers below are functions
\* from such a record to the record after the call.  The fields tiers and
\* entered are observations: the recovery procedures called, in call order,
\* and the tier handleError dispatched to.
State ==
    [currentConfig |-> currentConfig, bestConfig |-> bestConfig,
     performanceHistory |-> performanceHistory, deviceConfigs |-> deviceConfigs,
     historyIndex |-> historyIndex, consecutiveErrors |-> consecutiveErrors,
     lastAdjustmentTime |-> lastAdjustmentTime,
     adjustmentCooldown |-> adjustmentCooldown, lastErrorTime |-> lastErrorTime,
     learningMode |-> learningMode, emergencyRecovery |-> emergencyRecovery,
     adaptiveMode |-> adaptiveMode, performanceScore |-> performanceScore,
     adaptationRate |-> adaptationRate,
     currentDeviceAddress |-> currentDeviceAddress, lastError |-> lastError,
     errorHistory |-> errorHistory, errorHistoryIndex |-> errorHistoryIndex,
     clockSpeedRange |-> clockSpeedRange, riseTimeRange |-> riseTimeRange,
     tiers |-> <<>>, entered |-> "none"]

\* the controller fields of a working record (observations dropped)
Fields(s) ==
    [f \in {"currentConfig", "bestConfig", "performanceHistory", "deviceConfigs",
            "historyIndex", "consecutiveErrors", "lastAdjustmentTime",
            "adjustmentCooldown", "lastErrorTime", "learningMode",
            "emergencyRecovery", "adaptiveMode", "performanceScore",
            "adaptationRate", "currentDeviceAddress", "lastError", "errorHistory",
            "errorHistoryIndex", "clockSpeedRange", "riseTimeRange"} |-> s[f]]

Commit(s) ==
    /\ currentConfig' = s.currentConfig
    /\ bestConfig' = s.bestConfig
    /\ performanceHistory' = s.performanceHistory
    /\ deviceConfigs' = s.deviceConfigs
    /\ historyIndex' = s.historyIndex
    /\ consecutiveErrors' = s.consecutiveErrors
    /\ lastAdjustmentTime' = s.lastAdjustmentTime
    /\ adjustmentCooldown' = s.adjustmentCooldown
    /\ lastErrorTime' = s.lastErrorTime
    /\ learningMode' = s.learningMode
    /\ emergencyRecovery' = s.emergencyRecovery
    /\ adaptiveMode' = s.adaptiveMode
    /\ performanceScore' = s.performanceScore
    /\ adaptationRate' = s.adaptationRate
    /\ currentDeviceAddress' = s.currentDeviceAddress
    /\ lastError' = s.lastError
    /\ errorHistory' = s.errorHistory
    /\ errorHistoryIndex' = s.errorHistoryIndex
    /\ clockSpeedRange' = s.clockSpeedRange
    /\ riseTimeRange' = s.riseTimeRange

(* --------------------------- device registry --------------------------- *)
findDeviceConfig_firstEntry(s, address) ==
    IF Len(s.deviceConfigs) = 0 THEN 0 ELSE 1

\* index (1-based) of the entry for address, 0 when there is none (nullptr)
findDeviceConfig(s, address) ==
    LET hits == {i \in 1..Len(s.deviceConfigs) : s.deviceConfigs[i].address = address}
    IN IF hits = {} THEN 0 ELSE CHOOSE i \in hits : \A j \in hits : i <= j

addDeviceConfig_unbounded(s, address) ==
    [s EXCEPT !.deviceConfigs =
        Append(@, [address |-> address, config |-> s.currentConfig,
                   hasCustomConfig |-> FALSE])]

addDeviceConfig(s, address) ==
    IF Len(s.deviceConfigs) < MAX_DEVICES
    THEN [s EXCEPT !.deviceConfigs =
              Append(@, [address |-> address, config |-> s.currentConfig,
                         hasCustomConfig |-> FALSE])]
    ELSE s

(* ------------------------------- scoring ------------------------------- *)
calculateReliabilityScore(s) ==
    LET total == s.currentConfig.metrics.successfulTransactions
                 + s.currentConfig.metrics.failedTransactions
    IN IF total = 0 THEN 0
       ELSE (s.currentConfig.metrics.successfulTransactions * 100000) \div total

calculateEfficiencyScore_unscaled(s) ==
    IF s.currentConfig.metrics.averageTransactionTime = 0 THEN 0
    ELSE Max(0, 100000000 \div s.currentConfig.metrics.averageTransactionTime)

calculateEfficiencyScore(s) ==
    IF s.currentConfig.metrics.averageTransactionTime = 0 THEN 0
    ELSE Max(0, 100000000 \div (1000 + s.currentConfig.metrics.averageTransactionTime))

RECURSIVE ISqrt(_, _)
ISqrt(n, r) == IF (r + 1) * (r + 1) > n THEN r ELSE ISqrt(n, r + 1)

RECURSIVE SumUpTo(_, _)
SumUpTo(f, n) == IF n = 0 THEN 0 ELSE f[n] + SumUpTo(f, n - 1)

RECURSIVE calculatePerformanceScore(_, _)
RECURSIVE calculateStabilityScore(_)

\* performanceHistory[i] of the code is performanceHistory[i + 1] here
calculateStabilityScore(s) ==
    IF s.historyIndex < 3 THEN 50000
    ELSE LET samples == Min(s.historyIndex, LEARNING_WINDOW_SIZE)
             score == [i \in 1..samples |->
                          calculatePerformanceScore(s, s.performanceHistory[i])]
             mean == SumUpTo(score, samples) \div samples
             sq == [i \in 1..samples |->
                       ((score[i] - mean) \div 1000) * ((score[i] - mean) \div 1000)]
             variance == SumUpTo(sq, samples) \div samples
         IN Max(0, 100000 - 1000 * ISqrt(variance, 0))

calculatePerformanceScore(s, metrics) ==
    IF metrics.successfulTransactions = 0 THEN 0
    ELSE (calculateReliabilityScore(s) * 60 + calculateEfficiencyScore(s) * 25
          + calculateStabilityScore(s) * 15) \div 100

analyzeTrend_rising(s) == 150

analyzeTrend(s) ==
    IF s.historyIndex < 3 THEN 0
    ELSE LET samples == Min(s.historyIndex, LEARNING_WINDOW_SIZE)
             delta == [i \in 1..(samples - 1) |->
                          calculatePerformanceScore(s, s.performanceHistory[i + 1])
                          - calculatePerformanceScore(s, s.performanceHistory[i])]
         IN SumUpTo(delta, samples - 1) \div (samples - 1)

\* percent; the code's (errorCount / 10.0) * 100.0 is a multiple of 10
getRecentErrorRate(s) ==
    (Cardinality({i \in 0..(ERROR_HISTORY_SIZE - 1) : s.errorHistory[i] # ERROR_NONE})
        * 100) \div ERROR_HISTORY_SIZE

updateErrorHistory(s, error) ==
    [s EXCEPT !.errorHistory[s.errorHistoryIndex] = error,
              !.errorHistoryIndex = (s.errorHistoryIndex + 1) % ERROR_HISTORY_SIZE]

classifyError(wireError) ==
    CASE wireError = 1 -> ERROR_TIMEOUT
      [] wireError = 2 -> ERROR_NACK_ADDRESS
      [] wireError = 3 -> ERROR_NACK_DATA
      [] wireError = 4 -> ERROR_OTHER
      [] OTHER -> ERROR_NONE

shouldTriggerAdjustment_everyTransaction(s) ==
    s.currentConfig.metrics.successfulTransactions
    + s.currentConfig.metrics.failedTransactions > 0

shouldTriggerAdjustment(s) ==
    LET totalTransactions == s.currentConfig.metrics.successfulTransactions
                             + s.currentConfig.metrics.failedTransactions
    IN totalTransactions > 0 /\ totalTransactions % PERFORMANCE_SAMPLES = 0

saveCurrentAsBest_keepsMetrics(s) ==
    [s EXCEPT !.bestConfig = [s.currentConfig EXCEPT !.metrics = s.bestConfig.metrics]]

saveCurrentAsBest(s) == [s EXCEPT !.bestConfig = s.currentConfig]

restoreBestConfiguration(s) == [s EXCEPT !.currentConfig = s.bestConfig]

isInRecoveryMode(s) == s.consecutiveErrors >= ERROR_THRESHOLD

(* --------------------------- recovery tiers ---------------------------- *)
emergencyRecoveryProcedure_keepsLearning(s, t) ==
    LET clock == updateDynamicRange(s.clockSpeedRange, 0)
        rise == updateDynamicRange(s.riseTimeRange, DYNAMIC_RANGE_STEPS - 1)
    IN [s EXCEPT !.currentConfig.clockSpeedStep = 0,
                 !.currentConfig.riseTimeStep = DYNAMIC_RANGE_STEPS - 1,
                 !.clockSpeedRange = clock,
                 !.riseTimeRange = rise,
                 !.currentConfig.clockSpeed = clock.current_value,
                 !.currentConfig.riseTime = rise.current_value,
                 !.consecutiveErrors = 0,
                 !.lastAdjustmentTime = t,
                 !.adjustmentCooldown = EMERGENCY_COOLDOWN,
                 !.tiers = Append(@, "emergency")]

\* applyConfiguration() only pushes currentConfig.clockSpeed / riseTime to the
\* bus driver (Wire.setClock); it changes no controller field.
emergencyRecoveryProcedure_keepsCount(s, t) ==
    LET clock == updateDynamicRange(s.clockSpeedRange, 0)
        rise == updateDynamicRange(s.riseTimeRange, DYNAMIC_RANGE_STEPS - 1)
    IN [s EXCEPT !.currentConfig.clockSpeedStep = 0,
                 !.currentConfig.riseTimeStep = DYNAMIC_RANGE_STEPS - 1,
                 !.clockSpeedRange = clock,
                 !.riseTimeRange = rise,
                 !.currentConfig.clockSpeed = clock.current_value,
                 !.currentConfig.riseTime = rise.current_value,
                 !.learningMode = FALSE,
                 !.lastAdjustmentTime = t,
                 !.adjustmentCooldown = EMERGENCY_COOLDOWN,
                 !.tiers = Append(@, "emergency")]

emergencyRecoveryProcedure(s, t) ==
    LET clock == updateDynamicRange(s.clockSpeedRange, 0)
        rise == updateDynamicRange(s.riseTimeRange, DYNAMIC_RANGE_STEPS - 1)
    IN [s EXCEPT !.currentConfig.clockSpeedStep = 0,
                 !.currentConfig.riseTimeStep = DYNAMIC_RANGE_STEPS - 1,
                 !.clockSpeedRange = clock,
                 !.riseTimeRange = rise,
                 !.currentConfig.clockSpeed = clock.current_value,
                 !.currentConfig.riseTime = rise.current_value,
                 !.consecutiveErrors = 0,
                 !.learningMode = FALSE,
                 !.lastAdjustmentTime = t,
                 !.adjustmentCooldown = EMERGENCY_COOLDOWN,
                 !.tiers = Append(@, "emergency")]

\* the two guarded retreats of adaptiveRecovery's else branch
retreatClock(s) ==
    IF s.currentConfig.clockSpeedStep > 0
    THEN LET clock == updateDynamicRange(s.clockSpeedRange,
                                         s.currentConfig.clockSpeedStep - 1)
         IN [s EXCEPT !.currentConfig.clockSpeedStep = @ - 1,
                      !.clockSpeedRange = clock,
                      !.currentConfig.clockSpeed = clock.current_value]
    ELSE s

advanceRise(s) ==
    IF s.currentConfig.riseTimeStep < DYNAMIC_RANGE_STEPS - 1
    THEN LET rise == updateDynamicRange(s.riseTimeRange,
                                        s.currentConfig.riseTimeStep + 1)
         IN [s EXCEPT !.currentConfig.riseTimeStep = @ + 1,
                      !.riseTimeRange = rise,
                      !.currentConfig.riseTime = rise.current_value]
    ELSE s

escalates_fromTwenty(recentErrorRate) == recentErrorRate >= 20

escalates(recentErrorRate) == recentErrorRate > 20

adaptiveRecovery_alwaysEscalates(s, t) ==
    emergencyRecoveryProcedure([s EXCEPT !.tiers = Append(@, "adaptive")], t)

adaptiveRecovery(s, t) ==
    IF escalates(getRecentErrorRate(s))
    THEN emergencyRecoveryProcedure([s EXCEPT !.tiers = Append(@, "adaptive")], t)
    ELSE [advanceRise(retreatClock([s EXCEPT !.tiers = Append(@, "adaptive")]))
             EXCEPT !.consecutiveErrors = 0]

incrementalRecovery_keepsCount(s) ==
    retreatClock([s EXCEPT !.tiers = Append(@, "incremental")])

incrementalRecovery(s) ==
    [retreatClock([s EXCEPT !.tiers = Append(@, "incremental")])
        EXCEPT !.consecutiveErrors = 0]

recoveryTier_adaptiveFirst(s) ==
    IF s.adaptiveMode THEN "adaptive"
    ELSE IF s.emergencyRecovery THEN "emergency"
    ELSE "incremental"

\* the tier handleError dispatches to on a threshold breach
recoveryTier(s) ==
    IF s.emergencyRecovery THEN "emergency"
    ELSE IF s.adaptiveMode THEN "adaptive"
    ELSE "incremental"

handleError(s, errorType, t) ==
    LET recover(entered) ==
            CASE entered.entered = "emergency" -> emergencyRecoveryProcedure(entered, t)
              [] entered.entered = "adaptive" -> adaptiveRecovery(entered, t)
              [] OTHER -> incrementalRecovery(entered)
        dispatch(noted) ==
            IF noted.consecutiveErrors >= ERROR_THRESHOLD
            THEN recover([noted EXCEPT !.entered = recoveryTier(noted)])
            ELSE noted
    IN dispatch(updateErrorHistory([s EXCEPT !.lastError = errorType,
                                             !.lastErrorTime = t], errorType))

(* ------------------------------- metrics ------------------------------- *)
\* the counters of one metrics record after one outcome (lines 423-430 for
\* the global record, 441-446 for the device's)
countOutcome(metrics, success, transactionTime) ==
    IF success
    THEN [metrics EXCEPT !.successfulTransactions = @ + 1,
                         !.totalTransactionTime = @ + transactionTime]
    ELSE [metrics EXCEPT !.failedTransactions = @ + 1]

\* the steps of the function, in source order: the global counters, the
\* device's entry (added when missing) and its counters, the derived rates,
\* the time stamp, the score.  errorRate and averageTransactionTime are
\* computed by unsigned integer division in the code, as here.
updatePerformanceMetrics(s, success, transactionTime, deviceAddress, t) ==
    LET count(c) ==
            [c EXCEPT !.currentConfig.metrics = countOutcome(@, success, transactionTime),
                      !.consecutiveErrors = IF success THEN 0 ELSE @ + 1]
        register(c) ==
            IF c.adaptiveMode /\ findDeviceConfig(c, deviceAddress) = 0
            THEN addDeviceConfig(c, deviceAddress)
            ELSE c
        countAt(c, idx) ==
            IF c.adaptiveMode /\ idx # 0
            THEN [c EXCEPT !.deviceConfigs[idx].config.metrics =
                      countOutcome(@, success, transactionTime)]
            ELSE c
        perDevice(c) == countAt(c, findDeviceConfig(c, deviceAddress))
        rate(m, totalTransactions) ==
            IF totalTransactions > 0
            THEN [m EXCEPT
                     !.errorRate = (m.failedTransactions * 100) \div totalTransactions,
                     !.averageTransactionTime =
                         IF m.successfulTransactions > 0
                         THEN m.totalTransactionTime \div m.successfulTransactions
                         ELSE @,
                     !.lastUpdateTime = t]
            ELSE [m EXCEPT !.lastUpdateTime = t]
        stamp(c) ==
            [c EXCEPT !.currentConfig.metrics =
                 rate(@, @.successfulTransactions + @.failedTransactions)]
        score(c) ==
            [c EXCEPT !.performanceScore =
                 calculatePerformanceScore(c, c.currentConfig.metrics)]
    IN score(stamp(perDevice(register(count(s)))))

(* ---------------------------- decision engine -------------------------- *)
NoAdjustment ==
    [clockSpeedDelta |-> 0, riseTimeDelta |-> 0, confidence |-> 0,
     shouldAdjust |-> FALSE, reason |-> "No adjustment needed"]

inCooldown_defaultPeriod(s, t) == t - s.lastAdjustmentTime < DEFAULT_COOLDOWN

inCooldown(s, t) == t - s.lastAdjustmentTime < s.adjustmentCooldown

highErrorRate_aboveThirty(recentErrorRate) == recentErrorRate > 30

highErrorRate_aboveTwenty(recentErrorRate) == recentErrorRate > 20

\* the condition of the first rule
highErrorRate(recentErrorRate) == recentErrorRate > 10

bestScoreOf_fromSnapshot(s) ==
    calculatePerformanceScore([s EXCEPT !.currentConfig.metrics = s.bestConfig.metrics],
                              s.bestConfig.metrics)

\* the score the decision engine uses for bestConfig (line 480)
bestScoreOf(s) == calculatePerformanceScore(s, s.bestConfig.metrics)

\* result: the decision d and the controller s after the call
analyzePerformanceAndDecide(s, t) ==
    IF inCooldown(s, t)
    THEN [d |-> [NoAdjustment EXCEPT !.reason = "Cooldown period active"], s |-> s]
    ELSE
    LET optimize(better, trend) ==
            [d |-> IF trend > 200 /\ s.adaptationRate > 6
                   THEN [clockSpeedDelta |-> 1, riseTimeDelta |-> -1,
                         confidence |-> 70, shouldAdjust |-> TRUE,
                         reason |-> "Positive trend, optimizing speed"]
                   ELSE IF trend > 100 /\ s.adaptationRate > 3
                   THEN [clockSpeedDelta |-> 1, riseTimeDelta |-> 0,
                         confidence |-> 60, shouldAdjust |-> TRUE,
                         reason |-> "Moderate optimization"]
                   ELSE IF better
                   THEN [NoAdjustment EXCEPT !.reason = "New best configuration found"]
                   ELSE NoAdjustment,
             s |-> IF better THEN saveCurrentAsBest(s) ELSE s]
        decide(currentScore, bestScore, trend, recentErrorRate) ==
       IF highErrorRate(recentErrorRate)
       THEN [d |-> [clockSpeedDelta |-> -1, riseTimeDelta |-> 1, confidence |-> 85,
                    shouldAdjust |-> TRUE, reason |-> "High error rate detected"],
             s |-> s]
       ELSE IF /\ s.currentConfig.metrics.errorRate = 0
               /\ s.currentConfig.metrics.successfulTransactions > 20
       THEN optimize(currentScore * 100 > bestScore * 115, trend)
       ELSE IF currentScore * 10 < bestScore * 7
       THEN [d |-> [clockSpeedDelta |-> 0, riseTimeDelta |-> 0, confidence |-> 95,
                    shouldAdjust |-> FALSE, reason |-> "Restoring best configuration"],
             s |-> restoreBestConfiguration(s)]
       ELSE IF s.consecutiveErrors >= 2
       THEN [d |-> [clockSpeedDelta |-> -1, riseTimeDelta |-> 1, confidence |-> 80,
                    shouldAdjust |-> TRUE,
                    reason |-> "Consecutive errors, reducing speed"],
             s |-> s]
       ELSE [d |-> NoAdjustment, s |-> s]
    IN decide(calculatePerformanceScore(s, s.currentConfig.metrics), bestScoreOf(s),
              analyzeTrend(s), getRecentErrorRate(s))

movedStep_inverted(step, delta) ==
    IF delta < 0 /\ step < DYNAMIC_RANGE_STEPS - 1 THEN step + 1
    ELSE IF delta > 0 /\ step > 0 THEN step - 1
    ELSE step

movedStep_wraps(step, delta) ==
    IF delta > 0 THEN (step + 1) % 256
    ELSE IF delta < 0 THEN (step + 255) % 256
    ELSE step

\* a uint8_t step after one delta of a decision
movedStep(step, delta) ==
    IF delta > 0 /\ step < DYNAMIC_RANGE_STEPS - 1 THEN step + 1
    ELSE IF delta < 0 /\ step > 0 THEN step - 1
    ELSE step

applyAIDecision(s, decision, t) ==
    LET apply(newClockStep, newRiseStep, clock, rise) ==
            IF isStepValid(newClockStep) /\ isStepValid(newRiseStep)
            THEN [s EXCEPT !.currentConfig.clockSpeedStep = newClockStep,
                           !.currentConfig.riseTimeStep = newRiseStep,
                           !.clockSpeedRange = clock,
                           !.riseTimeRange = rise,
                           !.currentConfig.clockSpeed = clock.current_value,
                           !.currentConfig.riseTime = rise.current_value,
                           !.lastAdjustmentTime = t,
                           !.currentConfig.metrics =
                               [ZeroMetrics EXCEPT !.lastUpdateTime = t]]
            ELSE s
        step(newClockStep, newRiseStep) ==
            apply(newClockStep, newRiseStep,
                  updateDynamicRange(s.clockSpeedRange, newClockStep),
                  updateDynamicRange(s.riseTimeRange, newRiseStep))
    IN step(movedStep(s.currentConfig.clockSpeedStep, decision.clockSpeedDelta),
            movedStep(s.currentConfig.riseTimeStep, decision.riseTimeDelta))

applyDeviceConfiguration(s, address) ==
    LET switch(idx) ==
            IF idx # 0 /\ s.deviceConfigs[idx].hasCustomConfig
               /\ (\/ s.currentConfig.clockSpeed # s.deviceConfigs[idx].config.clockSpeed
                   \/ s.currentConfig.riseTime # s.deviceConfigs[idx].config.riseTime)
            THEN [s EXCEPT
                     !.currentConfig.clockSpeedStep =
                         s.deviceConfigs[idx].config.clockSpeedStep,
                     !.currentConfig.riseTimeStep =
                         s.deviceConfigs[idx].config.riseTimeStep,
                     !.currentConfig.clockSpeed = s.deviceConfigs[idx].config.clockSpeed,
                     !.currentConfig.riseTime = s.deviceConfigs[idx].config.riseTime]
            ELSE s
    IN switch(findDeviceConfig(s, address))

(* ----------------------------- observations ---------------------------- *)
\* What the last operation did.  reached: consecutiveErrors right after the
\* metrics update; entered / tiers: the tier handleError dispatched to and the
\* recovery procedures that ran; evaluated: analyzePerformanceAndDecide was
\* called, with cooldown, rate, bestScore and atEval (the controller) as they
\* were at the call, decision as returned, afterEval the controller when the
\* call returned, applied whether applyAIDecision was then called; at: millis()
\* during the operation; selected: the active steps and values once
\* beginTransmission / requestFrom has selected the device.
NoObs ==
    [op |-> "none", addr |-> 0, at |-> 0, selected |-> <<>>, failed |-> FALSE,
     reached |-> 0,
     entered |-> "none", tiers |-> <<>>, evaluated |-> FALSE, cooldown |-> FALSE,
     rate |-> 0, decision |-> NoAdjustment, bestScore |-> 0, atEval |-> <<>>,
     afterEval |-> <<>>, applied |-> FALSE, arg |-> 0, steps |-> <<>>,
     passed |-> FALSE]

Obs(op, addr) == [NoObs EXCEPT !.op = op, !.addr = addr, !.at = now]

\* the steps and resolved values of a configuration
activeValues(config) ==
    [clockSpeedStep |-> config.clockSpeedStep, riseTimeStep |-> config.riseTimeStep,
     clockSpeed |-> config.clockSpeed, riseTime |-> config.riseTime]

Selected(obs, s) == [obs EXCEPT !.selected = <<activeValues(s.currentConfig)>>]

\* lines 312-315 (and 338-341, 368-371, 387-390, cpp 14-17): evaluate the
\* decision engine and apply the decision if it asks for an adjustment
decideAndApply(s, t, obs) ==
    LET apply(a) ==
            [s |-> IF a.d.shouldAdjust THEN applyAIDecision(a.s, a.d, t) ELSE a.s,
             obs |-> [obs EXCEPT !.evaluated = TRUE,
                                 !.cooldown = inCooldown(s, t),
                                 !.rate = getRecentErrorRate(s),
                                 !.decision = a.d,
                                 !.bestScore = bestScoreOf(s),
                                 !.atEval = <<Fields(s)>>,
                                 !.afterEval = <<Fields(a.s)>>,
                                 !.applied = a.d.shouldAdjust]]
    IN apply(analyzePerformanceAndDecide(s, t))

\* the part of requestFrom / endTransmission after the bus call
completeTransaction(s, success, errorType, transactionTime, address, t, obs) ==
    LET handled(h, o) ==
            [s |-> h, obs |-> [o EXCEPT !.entered = h.entered, !.tiers = h.tiers]]
        after(m, o) ==
            IF ~success
            THEN handled(handleError(m, errorType, t), o)
            ELSE IF m.learningMode /\ shouldTriggerAdjustment(m)
            THEN decideAndApply(m, t, o)
            ELSE [s |-> m, obs |-> o]
        measured(m) ==
            after(m, [obs EXCEPT !.failed = ~success, !.reached = m.consecutiveErrors])
    IN measured(updatePerformanceMetrics(s, success, transactionTime, address, t))

\* bound on the run: the epoch's and the addressed device's transaction counts
CanTransact(address, cap, devCap) ==
    /\ currentConfig.metrics.successfulTransactions
       + currentConfig.metrics.failedTransactions < cap
    /\ LET i == findDeviceConfig(State, address)
       IN i # 0 => deviceConfigs[i].config.metrics.successfulTransactions
                   + deviceConfigs[i].config.metrics.failedTransactions < devCap

NextFresh(failedTransaction) ==
    IF failedTransaction /\ freshFails >= 0 /\ freshFails < ERROR_THRESHOLD
    THEN freshFails + 1
    ELSE -1

(* ------------------------------ operations ----------------------------- *)
Init ==
    /\ clockSpeedRange = initializeDynamicRange(clockSpeedRangeStatic)
    /\ riseTimeRange = initializeDynamicRange(riseTimeRangeStatic)
    /\ currentConfig =
         [clockSpeedStep |-> clockSpeedRange.current_step,
          riseTimeStep |-> riseTimeRange.current_step,
          clockSpeed |-> clockSpeedRange.current_value,
          riseTime |-> riseTimeRange.current_value,
          metrics |-> ZeroMetrics, isValid |-> TRUE]
    /\ bestConfig = currentConfig
    /\ performanceHistory = [i \in 1..LEARNING_WINDOW_SIZE |-> ZeroMetrics]
    /\ deviceConfigs = <<>>
    /\ errorHistory = [i \in 0..(ERROR_HISTORY_SIZE - 1) |-> ERROR_NONE]
    /\ historyIndex = 0
    /\ consecutiveErrors = 0
    /\ lastAdjustmentTime = 0
    /\ lastErrorTime = 0
    /\ adjustmentCooldown = DEFAULT_COOLDOWN
    /\ learningMode = TRUE
    /\ emergencyRecovery = TRUE
    /\ adaptiveMode = TRUE
    /\ performanceScore = 0
    /\ adaptationRate = DEFAULT_ADAPTATION_RATE
    /\ currentDeviceAddress = 0
    /\ lastError = ERROR_NONE
    /\ errorHistoryIndex = 0
    /\ now = 0
    /\ last = NoObs
    /\ freshFails = 0
    /\ ops = 0

\* one more call, within the bound on the run
Counted == ops < MaxOps /\ ops' = ops + 1

\* millis() moves on between two operations
Tick ==
    /\ \E d \in TickSteps : now + d <= MaxTime /\ now' = now + d
    /\ UNCHANGED <<ctl, last, freshFails, ops>>

selectDevice_ignoresMode(s, address) ==
    applyDeviceConfiguration([s EXCEPT !.currentDeviceAddress = address], address)

\* the opening of requestFrom and beginTransmission: note the address and, in
\* adaptive mode, switch to the device's configuration
selectDevice(s, address) ==
    IF s.adaptiveMode
    THEN applyDeviceConfiguration([s EXCEPT !.currentDeviceAddress = address], address)
    ELSE [s EXCEPT !.currentDeviceAddress = address]

requestFromOp(address, result, transactionTime) ==
    /\ \E s \in {selectDevice(State, address)} :
          \E r \in {completeTransaction(s, result > 0, ERROR_TIMEOUT, transactionTime,
                                        address, now,
                                        Selected(Obs("requestFrom", address), s))} :
              Commit(r.s) /\ last' = r.obs
    /\ freshFails' = NextFresh(result = 0)
    /\ UNCHANGED now

RequestFrom ==
    /\ Counted
    /\ \E address \in Addrs, result \in RequestResults, transactionTime \in TxTimes :
         requestFromOp(address, result, transactionTime)

\* requestFrom on the first bus address only
Poll ==
    /\ Counted
    /\ \E result \in RequestResults, transactionTime \in TxTimes :
         requestFromOp(FirstAddr, result, transactionTime)

BeginTransmission ==
    /\ Counted
    /\ \E address \in Addrs :
         \E s \in {selectDevice(State, address)} :
             Commit(s) /\ last' = Selected(Obs("beginTransmission", address), s)
    /\ UNCHANGED <<now, freshFails>>

endTransmissionOp(result, transactionTime) ==
    /\ \E r \in {completeTransaction(State, result = 0, classifyError(result),
                                      transactionTime, currentDeviceAddress, now,
                                      Obs("endTransmission", currentDeviceAddress))} :
          Commit(r.s) /\ last' = r.obs
    /\ freshFails' = NextFresh(result # 0)
    /\ UNCHANGED now

EndTransmission ==
    /\ Counted
    /\ \E result \in WireResults, transactionTime \in TxTimes :
         endTransmissionOp(result, transactionTime)

forceOptimization(s, t, obs) ==
    IF s.currentConfig.metrics.successfulTransactions > 0
    THEN decideAndApply([s EXCEPT !.lastAdjustmentTime = 0], t, obs)
    ELSE [s |-> [s EXCEPT !.lastAdjustmentTime = 0], obs |-> obs]

forceOptimizationOp ==
    /\ \E r \in {forceOptimization(State, now, Obs("forceOptimization", 0))} :
          Commit(r.s) /\ last' = r.obs
    /\ freshFails' = -1
    /\ UNCHANGED now

ForceOptimization == Counted /\ forceOptimizationOp

EnableLearning ==
    /\ Counted
    /\ \E enable \in BOOLEAN :
         \E s \in {[State EXCEPT !.learningMode = enable,
                                   !.adjustmentCooldown =
                                       IF enable THEN DEFAULT_COOLDOWN ELSE @]} :
             Commit(s)
    /\ last' = Obs("enableLearning", 0)
    /\ freshFails' = -1
    /\ UNCHANGED now

EnableAdaptiveMode ==
    /\ Counted
    /\ \E enable \in BOOLEAN :
         \E s \in {[State EXCEPT !.adaptiveMode = enable]} : Commit(s)
    /\ last' = Obs("enableAdaptiveMode", 0)
    /\ freshFails' = -1
    /\ UNCHANGED now

EnableEmergencyRecovery ==
    /\ Counted
    /\ \E enable \in BOOLEAN :
         \E s \in {[State EXCEPT !.emergencyRecovery = enable]} : Commit(s)
    /\ last' = Obs("enableEmergencyRecovery", 0)
    /\ freshFails' = -1
    /\ UNCHANGED now

setAdaptationRate_rejects(s, rate) ==
    IF rate < 1 \/ rate > 10 THEN s ELSE [s EXCEPT !.adaptationRate = rate]

\* constrain(rate, 1, 10)
setAdaptationRate(s, rate) ==
    [s EXCEPT !.adaptationRate =
        IF rate < 1 THEN 1 ELSE IF rate > 10 THEN 10 ELSE rate]

SetAdaptationRate ==
    /\ Counted
    /\ \E rate \in RateInputs :
         /\ \E s \in {setAdaptationRate(State, rate)} : Commit(s)
         /\ last' = [Obs("setAdaptationRate", 0) EXCEPT !.arg = rate]
    /\ freshFails' = -1
    /\ UNCHANGED now

SetCooldownPeriod ==
    /\ Counted
    /\ \E milliseconds \in CooldownInputs :
         \E s \in {[State EXCEPT !.adjustmentCooldown = milliseconds]} : Commit(s)
    /\ last' = Obs("setCooldownPeriod", 0)
    /\ freshFails' = -1
    /\ UNCHANGED now

setDeviceSpecificConfig(s, address, clockSpeed, riseTime) ==
    LET store(known, idx, clockStep, riseStep, clock, rise) ==
            IF idx # 0 /\ isStepValid(clockStep) /\ isStepValid(riseStep)
            THEN [known EXCEPT
                     !.deviceConfigs[idx].config.clockSpeedStep = clockStep,
                     !.deviceConfigs[idx].config.riseTimeStep = riseStep,
                     !.clockSpeedRange = clock,
                     !.riseTimeRange = rise,
                     !.deviceConfigs[idx].config.clockSpeed = clock.current_value,
                     !.deviceConfigs[idx].config.riseTime = rise.current_value,
                     !.deviceConfigs[idx].hasCustomConfig = TRUE]
            ELSE known
        convert(known, idx, clockStep, riseStep) ==
            store(known, idx, clockStep, riseStep,
                  updateDynamicRange(known.clockSpeedRange, clockStep),
                  updateDynamicRange(known.riseTimeRange, riseStep))
        configure(known) ==
            convert(known, findDeviceConfig(known, address),
                    calculateStepFromValue(known.clockSpeedRange, clockSpeed),
                    calculateStepFromValue(known.riseTimeRange, riseTime))
    IN configure(IF findDeviceConfig(s, address) = 0
                 THEN addDeviceConfig(s, address)
                 ELSE s)

SetDeviceSpecificConfig ==
    /\ Counted
    /\ \E address \in Addrs, clockSpeed \in ClockInputs, riseTime \in RiseInputs :
         /\ \E s \in {setDeviceSpecificConfig(State, address, clockSpeed, riseTime)} :
                Commit(s)
         /\ last' = Obs("setDeviceSpecificConfig", address)
    /\ freshFails' = -1
    /\ UNCHANGED now

removeDeviceConfig_dropsLast(s, address) ==
    IF findDeviceConfig(s, address) = 0 THEN s
    ELSE [s EXCEPT !.deviceConfigs = SubSeq(@, 1, Len(@) - 1)]

\* the entries after the first one for address move down by one
removeDeviceConfig(s, address) ==
    LET i == findDeviceConfig(s, address)
    IN IF i = 0 THEN s
       ELSE [s EXCEPT !.deviceConfigs =
                [j \in 1..(Len(s.deviceConfigs) - 1) |->
                    IF j < i THEN s.deviceConfigs[j] ELSE s.deviceConfigs[j + 1]]]

RemoveDeviceConfig ==
    /\ Counted
    /\ \E address \in Addrs :
         /\ \E s \in {removeDeviceConfig(State, address)} : Commit(s)
         /\ last' = Obs("removeDeviceConfig", address)
    /\ freshFails' = -1
    /\ UNCHANGED now

resetToDefaults(s, t) ==
    LET clock == updateDynamicRange(s.clockSpeedRange, 0)
        rise == updateDynamicRange(s.riseTimeRange, DYNAMIC_RANGE_STEPS \div 2)
        config == [clockSpeedStep |-> 0,
                   riseTimeStep |-> DYNAMIC_RANGE_STEPS \div 2,
                   clockSpeed |-> clock.current_value,
                   riseTime |-> rise.current_value,
                   metrics |-> [ZeroMetrics EXCEPT !.lastUpdateTime = t],
                   isValid |-> TRUE]
    IN [s EXCEPT !.currentConfig = config,
                 !.clockSpeedRange = clock,
                 !.riseTimeRange = rise,
                 !.consecutiveErrors = 0,
                 !.lastAdjustmentTime = 0,
                 !.lastErrorTime = 0,
                 !.adjustmentCooldown = DEFAULT_COOLDOWN,
                 !.learningMode = TRUE,
                 !.emergencyRecovery = TRUE,
                 !.adaptiveMode = TRUE,
                 !.performanceScore = 0,
                 !.adaptationRate = DEFAULT_ADAPTATION_RATE,
                 !.lastError = ERROR_NONE,
                 !.errorHistoryIndex = 0,
                 !.errorHistory = [i \in 0..(ERROR_HISTORY_SIZE - 1) |-> ERROR_NONE],
                 !.bestConfig = config]

ResetToDefaults ==
    /\ Counted
    /\ \E s \in {resetToDefaults(State, now)} : Commit(s)
    /\ last' = Obs("resetToDefaults", 0)
    /\ freshFails' = -1
    /\ UNCHANGED now

resetLearning_forgetsDevices(s, t) ==
    [s EXCEPT !.performanceHistory = [i \in 1..LEARNING_WINDOW_SIZE |-> ZeroMetrics],
              !.historyIndex = 0,
              !.currentConfig.metrics = [ZeroMetrics EXCEPT !.lastUpdateTime = t],
              !.deviceConfigs = <<>>,
              !.performanceScore = 0,
              !.consecutiveErrors = 0,
              !.lastAdjustmentTime = 0,
              !.errorHistory = [i \in 0..(ERROR_HISTORY_SIZE - 1) |-> ERROR_NONE],
              !.errorHistoryIndex = 0]

resetLearning(s, t) ==
    [s EXCEPT !.performanceHistory = [i \in 1..LEARNING_WINDOW_SIZE |-> ZeroMetrics],
              !.historyIndex = 0,
              !.currentConfig.metrics = [ZeroMetrics EXCEPT !.lastUpdateTime = t],
              !.performanceScore = 0,
              !.consecutiveErrors = 0,
              !.lastAdjustmentTime = 0,
              !.errorHistory = [i \in 0..(ERROR_HISTORY_SIZE - 1) |-> ERROR_NONE],
              !.errorHistoryIndex = 0]

ResetLearning ==
    /\ Counted
    /\ \E s \in {resetLearning(State, now)} : Commit(s)
    /\ last' = [Obs("resetLearning", 0) EXCEPT !.atEval = <<Fields(State)>>]
    /\ freshFails' = -1
    /\ UNCHANGED now

setClockSpeed(s, clockSpeed) ==
    LET apply(step, clock) ==
            IF isStepValid(step)
            THEN [s EXCEPT !.currentConfig.clockSpeedStep = step,
                           !.clockSpeedRange = clock,
                           !.currentConfig.clockSpeed = clock.current_value]
            ELSE s
        convert(step) == apply(step, updateDynamicRange(s.clockSpeedRange, step))
    IN convert(calculateStepFromValue(s.clockSpeedRange, clockSpeed))

SetClockSpeed ==
    /\ Counted
    /\ \E clockSpeed \in ClockInputs :
         \E s \in {setClockSpeed(State, clockSpeed)} : Commit(s)
    /\ last' = Obs("setClockSpeed", 0)
    /\ freshFails' = -1
    /\ UNCHANGED now

setRiseTime(s, riseTimeNs) ==
    LET apply(step, rise) ==
            IF isStepValid(step)
            THEN [s EXCEPT !.currentConfig.riseTimeStep = step,
                           !.riseTimeRange = rise,
                           !.currentConfig.riseTime = rise.current_value]
            ELSE s
        convert(step) == apply(step, updateDynamicRange(s.riseTimeRange, step))
    IN convert(calculateStepFromValue(s.riseTimeRange, riseTimeNs))

SetRiseTime ==
    /\ Counted
    /\ \E riseTimeNs \in RiseInputs :
         \E s \in {setRiseTime(State, riseTimeNs)} : Commit(s)
    /\ last' = Obs("setRiseTime", 0)
    /\ freshFails' = -1
    /\ UNCHANGED now

\* scanBus: the addresses 1..126 in ascending order; an address that answers
\* the probe (a bare Wire transmission, outside the metrics) is registered
\* unless the registry already holds it. The loop is followed from one
\* answering address to the next: the addresses in between change nothing.
RECURSIVE scanBusFrom(_, _, _)
scanBusFrom(s, address, responding) ==
    LET ahead == {a \in responding : a >= address /\ a < 127}
        found(a) ==
            scanBusFrom(IF findDeviceConfig(s, a) = 0 THEN addDeviceConfig(s, a) ELSE s,
                        a + 1, responding)
    IN IF ahead = {} THEN s
       ELSE found(CHOOSE a \in ahead : \A b \in ahead : a <= b)

scanBus(s, responding) == scanBusFrom(s, 1, responding)

\* the devices that answer a scan: fifteen, sixteen, or a single one
BusPopulations == {1..15, 2..17, {2}}

\* addresses of calls on a bus that large: inside and outside the populations
BusAddrs == {1, 2, 17}

ScanBus ==
    /\ Counted
    /\ \E responding \in BusPopulations :
         /\ \E s \in {scanBus(State, responding)} : Commit(s)
         /\ last' = Obs("scanBus", 0)
    /\ freshFails' = -1
    /\ UNCHANGED now

RequestFromOnBus ==
    /\ Counted
    /\ \E address \in BusAddrs, result \in RequestResults, transactionTime \in TxTimes :
         requestFromOp(address, result, transactionTime)

SetDeviceSpecificConfigOnBus ==
    /\ Counted
    /\ \E address \in BusAddrs, clockSpeed \in {400000}, riseTime \in {250} :
         /\ \E s \in {setDeviceSpecificConfig(State, address, clockSpeed, riseTime)} :
                Commit(s)
         /\ last' = Obs("setDeviceSpecificConfig", address)
    /\ freshFails' = -1
    /\ UNCHANGED now

RemoveDeviceConfigOnBus ==
    /\ Counted
    /\ \E address \in BusAddrs :
         /\ \E s \in {removeDeviceConfig(State, address)} : Commit(s)
         /\ last' = Obs("removeDeviceConfig", address)
    /\ freshFails' = -1
    /\ UNCHANGED now

testConfiguration_keepsTested(s, clockStep, riseStep, failing, t) ==
    [s |-> IF isStepValid(clockStep) /\ isStepValid(riseStep)
           THEN [s EXCEPT !.currentConfig.clockSpeedStep = clockStep,
                          !.currentConfig.riseTimeStep = riseStep]
           ELSE s,
     passed |-> FALSE]

\* the ping loop of testConfiguration from entry i on: a device in failing
\* does not acknowledge; the third failure ends the loop
RECURSIVE testDevices(_, _, _, _)
testDevices(s, i, testErrors, failing) ==
    LET counted(down, errors) ==
            [s EXCEPT !.currentConfig.metrics.successfulTransactions =
                          IF down THEN @ ELSE @ + 1,
                      !.currentConfig.metrics.failedTransactions = @ + errors]
        next(down, errors) ==
            IF down /\ errors > 2
            THEN [s |-> counted(down, errors), passed |-> FALSE]
            ELSE testDevices(counted(down, errors), i + 1, errors, failing)
        ping(down) == next(down, IF down THEN testErrors + 1 ELSE testErrors)
    IN IF i > Len(s.deviceConfigs) THEN [s |-> s, passed |-> TRUE]
       ELSE ping(s.deviceConfigs[i].address \in failing)

\* result: the controller s after the call and the value returned
testConfiguration(s, clockStep, riseStep, failing, t) ==
    LET finish(r) ==
            IF r.passed THEN r
            ELSE [s |-> [r.s EXCEPT !.currentConfig = s.currentConfig],
                  passed |-> FALSE]
    IN IF ~isStepValid(clockStep) \/ ~isStepValid(riseStep)
       THEN [s |-> s, passed |-> FALSE]
       ELSE finish(testDevices(
                [s EXCEPT !.currentConfig.clockSpeedStep = clockStep,
                          !.currentConfig.riseTimeStep = riseStep,
                          !.currentConfig.clockSpeed =
                              calculateValueFromStep(s.clockSpeedRange, clockStep),
                          !.currentConfig.riseTime =
                              calculateValueFromStep(s.riseTimeRange, riseStep),
                          !.currentConfig.metrics =
                              [ZeroMetrics EXCEPT !.lastUpdateTime = t]],
                1, 0, failing))

\* the steps passed to testConfiguration: valid, and one or the other invalid
TestSteps == {<<5, 12>>, <<20, 12>>, <<5, 255>>}

\* the devices that do not acknowledge the ping: none, one, all
SilentDevices == {{}, {2}, 1..126}

TestConfiguration ==
    /\ Counted
    /\ \E steps \in TestSteps, failing \in SilentDevices :
         \E r \in {testConfiguration(State, steps[1], steps[2], failing, now)} :
             /\ Commit(r.s)
             /\ last' = [Obs("testConfiguration", 0) EXCEPT !.steps = steps,
                                                            !.passed = r.passed,
                                                            !.atEval = <<Fields(State)>>]
    /\ freshFails' = -1
    /\ UNCHANGED now

\* millis() moves on by the cooldown the emergency procedure sets
LongTick ==
    /\ now + EMERGENCY_COOLDOWN <= MaxLongTime
    /\ now' = now + EMERGENCY_COOLDOWN
    /\ UNCHANGED <<ctl, last, freshFails, ops>>

\* applyAIDecision on its own, for every pair of deltas a decision can carry
Deltas == {-1, 0, 1}

ApplyAIDecision ==
    /\ Counted
    /\ \E clockSpeedDelta \in Deltas, riseTimeDelta \in Deltas :
         \E decision \in {[NoAdjustment EXCEPT !.clockSpeedDelta = clockSpeedDelta,
                                               !.riseTimeDelta = riseTimeDelta,
                                               !.shouldAdjust = TRUE]} :
             /\ \E s \in {applyAIDecision(State, decision, now)} : Commit(s)
             /\ last' = [Obs("applyAIDecision", 0) EXCEPT !.decision = decision,
                                                          !.atEval = <<Fields(State)>>,
                                                          !.applied = TRUE]
    /\ freshFails' = -1
    /\ UNCHANGED now

\* Long runs: the calls are not counted, the transaction counters are capped.
PollCapped ==
    /\ CanTransact(FirstAddr, MaxLongTotal, MaxLongDevTotal)
    /\ \E result \in RequestResults, transactionTime \in TxTimes :
         /\ result = 0 => errorHistoryIndex < MaxLongFails
         /\ requestFromOp(FirstAddr, result, transactionTime)
    /\ UNCHANGED ops

ForceOptimizationAnyTime == forceOptimizationOp /\ UNCHANGED ops

\* resetLearning once a configuration has been promoted to best
ResetLearningAnyTime ==
    /\ bestConfig.metrics.successfulTransactions > 0
    /\ \E s \in {resetLearning(State, now)} : Commit(s)
    /\ last' = [Obs("resetLearning", 0) EXCEPT !.atEval = <<Fields(State)>>]
    /\ freshFails' = -1
    /\ UNCHANGED <<now, ops>>

(* ---------------------------- specifications --------------------------- *)
\* Recovery: transactions to one device under every setting of the mode
\* flags, with the clock step moved off its initial 0 by setClockSpeed.
Next ==
    \/ Tick
    \/ Poll
    \/ EndTransmission
    \/ EnableLearning
    \/ EnableAdaptiveMode
    \/ EnableEmergencyRecovery
    \/ SetClockSpeed

Spec == Init /\ [][Next]_vars

\* Decision engine: long runs of transactions to one device, with forced
\* optimization passes, all modes as constructed.
NextDecision ==
    \/ Tick
    \/ PollCapped
    \/ ForceOptimizationAnyTime

SpecDecision == Init /\ [][NextDecision]_vars

\* Device registry: overrides set and removed, transactions to both addresses,
\* adaptive mode switched on and off.
NextDevices ==
    \/ SetDeviceSpecificConfig
    \/ RemoveDeviceConfig
    \/ BeginTransmission
    \/ RequestFrom
    \/ EnableAdaptiveMode

SpecDevices == Init /\ [][NextDevices]_vars

\* Configuration: the setters and the two resets, between transactions to one
\* device.
NextConfig ==
    \/ Tick
    \/ Poll
    \/ SetClockSpeed
    \/ SetRiseTime
    \/ SetAdaptationRate
    \/ EnableLearning
    \/ ResetToDefaults
    \/ ResetLearning

SpecConfig == Init /\ [][NextConfig]_vars

\* A bus of up to seventeen devices: scans, transactions, overrides and
\* removals on a registry that fills up.
NextRegistry ==
    \/ ScanBus
    \/ RequestFromOnBus
    \/ SetDeviceSpecificConfigOnBus
    \/ RemoveDeviceConfigOnBus

SpecRegistry == Init /\ [][NextRegistry]_vars

\* Testing configurations on a bus that was scanned, between transactions and
\* clock changes.
NextTest ==
    \/ Tick
    \/ ScanBus
    \/ Poll
    \/ SetClockSpeed
    \/ TestConfiguration

SpecTest == Init /\ [][NextTest]_vars

\* Transactions with pauses as long as the emergency cooldown.
NextPause ==
    \/ LongTick
    \/ Poll
    \/ EndTransmission

SpecPause == Init /\ [][NextPause]_vars

\* Self-adjustment: transactions, forced optimisation, learning resets and
\* changes of the modes, the cooldown and the adaptation rate, from the steps
\* the clock setter has chosen.
NextAdjust ==
    \/ Tick
    \/ Poll
    \/ EndTransmission
    \/ ForceOptimization
    \/ ResetLearning
    \/ EnableLearning
    \/ EnableAdaptiveMode
    \/ EnableEmergencyRecovery
    \/ SetCooldownPeriod
    \/ SetAdaptationRate
    \/ SetClockSpeed

SpecAdjust == Init /\ [][NextAdjust]_vars

\* Long runs in which the learning state is reset after a configuration has
\* been promoted to best.
NextBest ==
    \/ Tick
    \/ PollCapped
    \/ ForceOptimizationAnyTime
    \/ ResetLearningAnyTime

SpecBest == Init /\ [][NextBest]_vars

\* Applying decisions: every pair of deltas, from steps the setters have moved
\* to the ends of the ranges, with transactions in between.
NextApply ==
    \/ Tick
    \/ Poll
    \/ SetClockSpeed
    \/ SetRiseTime
    \/ ApplyAIDecision

SpecApply == Init /\ [][NextApply]_vars

(* -------------------------------- claims ------------------------------- *)
\* the last operation was a failed transaction that brought consecutiveErrors
\* to the threshold
Breach == last.failed /\ last.reached >= ERROR_THRESHOLD

\* the tier the configuration priority selects
PriorityTier ==
    IF emergencyRecovery THEN "emergency"
    ELSE IF adaptiveMode THEN "adaptive"
    ELSE "incremental"

\* C1 (as stated): a failed transaction that brings consecutiveErrors to
\* ERROR_THRESHOLD runs exactly one recovery tier and returns with
\* consecutiveErrors = 0; a failure that leaves the count below the threshold
\* runs no tier.
C1_ExactlyOneTierRuns ==
    /\ Breach => Len(last.tiers) = 1 /\ consecutiveErrors = 0
    /\ (last.failed /\ last.reached < ERROR_THRESHOLD) => last.tiers = <<>>

\* C1 (amended): on a threshold breach handleError enters exactly one tier and
\* the transaction returns with consecutiveErrors = 0; that tier is the only
\* recovery procedure that runs, except that the adaptive tier (entered with
\* emergency recovery disabled and adaptive mode on) also runs the emergency
\* procedure when it escalates; below the threshold no tier runs.
C1_OneTierEntered ==
    /\ Breach =>
         /\ consecutiveErrors = 0
         /\ last.entered \in {"emergency", "adaptive", "incremental"}
         /\ \/ last.tiers = <<last.entered>>
            \/ /\ last.tiers = <<"adaptive", "emergency">>
               /\ last.entered = "adaptive"
               /\ ~emergencyRecovery /\ adaptiveMode
               /\ getRecentErrorRate(State) > 20
    /\ (last.failed /\ last.reached < ERROR_THRESHOLD) =>
         last.tiers = <<>> /\ last.entered = "none"

\* C1 witness: a breach in which the adaptive tier ran the emergency procedure
C1_Witness == Breach /\ last.tiers = <<"adaptive", "emergency">>

\* C2: on a fresh controller (emergency recovery enabled), after three failed
\* transactions and nothing else, clockSpeedStep = 0, riseTimeStep =
\* DYNAMIC_RANGE_STEPS - 1, learning is off, the cooldown is 15000 (> 5000),
\* consecutiveErrors = 0 and lastAdjustmentTime is the time of the third failure.
C2_FreshThreeFailures ==
    freshFails = ERROR_THRESHOLD =>
        /\ currentConfig.clockSpeedStep = 0
        /\ currentConfig.riseTimeStep = DYNAMIC_RANGE_STEPS - 1
        /\ learningMode = FALSE
        /\ adjustmentCooldown = 15000
        /\ adjustmentCooldown > DEFAULT_COOLDOWN
        /\ consecutiveErrors = 0
        /\ last.failed
        /\ lastAdjustmentTime = last.at

\* C2 witness: the third failure happened after the clock had advanced
C2_Witness == freshFails = ERROR_THRESHOLD /\ last.at > 0 /\ last.tiers = <<"emergency">>

\* C3: on a threshold breach the tier handleError enters is chosen by the
\* configuration priority only: emergency if enabled (whatever adaptiveMode
\* is), else adaptive if adaptive mode is on, else incremental.
C3_TierByPriority ==
    Breach => Len(last.tiers) >= 1 /\ last.tiers[1] = PriorityTier

\* C3 witness: the lowest-priority tier was entered (both flags off)
C3_Witness == Breach /\ last.tiers = <<"incremental">> /\ ~emergencyRecovery /\ ~adaptiveMode

\* what the adaptive tier does in the step (a call, not a clock tick) that
\* enters it, given the rates at which it escalates
AdaptiveTierStep(escalating) ==
    (ops' # ops /\ last'.entered = "adaptive") =>
        IF escalating
        THEN /\ last'.tiers = <<"adaptive", "emergency">>
             /\ currentConfig'.clockSpeedStep = 0
             /\ currentConfig'.riseTimeStep = DYNAMIC_RANGE_STEPS - 1
             /\ learningMode' = FALSE
             /\ adjustmentCooldown' = EMERGENCY_COOLDOWN
             /\ consecutiveErrors' = 0
        ELSE /\ last'.tiers = <<"adaptive">>
             /\ currentConfig'.clockSpeedStep = Max(currentConfig.clockSpeedStep - 1, 0)
             /\ currentConfig'.riseTimeStep =
                    Min(currentConfig.riseTimeStep + 1, DYNAMIC_RANGE_STEPS - 1)
             /\ learningMode' = learningMode
             /\ adjustmentCooldown' = adjustmentCooldown
             /\ consecutiveErrors' = 0

\* recentErrorRate() as the adaptive tier of the step reads it
RateAfter == getRecentErrorRate([errorHistory |-> errorHistory'])

AtEval == last.atEval[1]

EvaluatedOutsideCooldown ==
    last.evaluated /\ last.at - AtEval.lastAdjustmentTime >= AtEval.adjustmentCooldown

EvaluatedInCooldown ==
    last.evaluated /\ last.at - AtEval.lastAdjustmentTime < AtEval.adjustmentCooldown

HighErrorDecision ==
    [clockSpeedDelta |-> -1, riseTimeDelta |-> 1, confidence |-> 85,
     shouldAdjust |-> TRUE, reason |-> "High error rate detected"]

CooldownDecision ==
    [clockSpeedDelta |-> 0, riseTimeDelta |-> 0, confidence |-> 0,
     shouldAdjust |-> FALSE, reason |-> "Cooldown period active"]

\* C5: whenever the decision engine is evaluated outside the cooldown with
\* recentErrorRate() > 10%, the decision is (-1, +1, confidence 85, adjust,
\* "high error rate") whatever the metrics, scores, adaptation rate and
\* consecutiveErrors are, and bestConfig is not promoted in that cycle.
C5_HighErrorRateFirst ==
    (EvaluatedOutsideCooldown /\ getRecentErrorRate(AtEval) > 10) =>
        /\ last.decision = HighErrorDecision
        /\ last.afterEval[1].bestConfig = AtEval.bestConfig
        /\ bestConfig = AtEval.bestConfig

\* C5 witness: the engine ran outside the cooldown at a recent error rate
\* above 10% while the condition of rule 2 held (no error in the epoch, more
\* than 20 successes)
C5_Witness ==
    /\ EvaluatedOutsideCooldown
    /\ getRecentErrorRate(AtEval) > 10
    /\ AtEval.currentConfig.metrics.errorRate = 0
    /\ AtEval.currentConfig.metrics.successfulTransactions > 20

\* C6: every evaluation of the decision engine at a time with
\* now - lastAdjustmentTime < adjustmentCooldown returns the no-op decision
\* (deltas 0, confidence 0, no adjustment, "cooldown active") and changes no
\* controller field.
C6_CooldownNoOp ==
    EvaluatedInCooldown =>
        /\ last.decision = CooldownDecision
        /\ ~last.applied
        /\ last.afterEval = last.atEval
        /\ Fields(State) = AtEval

\* C6 witness: an evaluation in the cooldown at which rule 1 would have
\* applied (recent error rate above 10%) after two consecutive errors
C6_Witness ==
    /\ EvaluatedInCooldown
    /\ getRecentErrorRate(AtEval) > 10
    /\ AtEval.currentConfig.metrics.failedTransactions >= 2

\* C7 (as stated): forceOptimization, called with a success count > 0 at any
\* time, evaluates the priority rules and never yields the "cooldown active"
\* no-op.
C7_ForceIgnoresCooldown ==
    (/\ last.op = "forceOptimization"
     /\ last.evaluated
     /\ AtEval.currentConfig.metrics.successfulTransactions > 0) =>
        last.decision.reason # "Cooldown period active"

\* the entries of the registry stored for an address
Registered(address) ==
    {i \in 1..Len(deviceConfigs) : deviceConfigs[i].address = address}

\* C8: setDeviceSpecificConfig(A, clock, rise) leaves currentConfig,
\* bestConfig and the stored entry of every registered device other than A
\* unchanged; only A's entry is created or modified.
C8_DeviceOverrideIsolation ==
    [][(ops' # ops /\ last'.op = "setDeviceSpecificConfig") =>
          /\ currentConfig' = currentConfig
          /\ bestConfig' = bestConfig
          /\ Len(deviceConfigs') \in {Len(deviceConfigs), Len(deviceConfigs) + 1}
          /\ \A i \in 1..Len(deviceConfigs) :
                deviceConfigs[i].address # last'.addr =>
                    deviceConfigs'[i] = deviceConfigs[i]
          /\ \A i \in 1..Len(deviceConfigs') :
                i > Len(deviceConfigs) => deviceConfigs'[i].address = last'.addr]_vars

\* C8 witness: an override was stored for one address, with values other than
\* the active ones, while another address was registered
C8_Witness ==
    /\ last.op = "setDeviceSpecificConfig"
    /\ \E i \in Registered(last.addr) :
          /\ deviceConfigs[i].hasCustomConfig
          /\ deviceConfigs[i].config.clockSpeed # currentConfig.clockSpeed
    /\ \E i \in 1..Len(deviceConfigs) : deviceConfigs[i].address # last.addr

\* C9: in adaptive mode beginTransmission(A) and requestFrom(A) for a
\* registered custom device whose resolved clock or rise value differs from
\* the active one overwrite currentConfig's steps and values with A's; for an
\* unregistered or non-custom address, or with adaptive mode off, the steps
\* and values of currentConfig are left as they are.
C9_ConfigurationSwitch ==
    [][(ops' # ops /\ last'.op \in {"beginTransmission", "requestFrom"}) =>
          /\ \A i \in Registered(last'.addr) :
                (/\ adaptiveMode
                 /\ deviceConfigs[i].hasCustomConfig
                 /\ \/ deviceConfigs[i].config.clockSpeed # currentConfig.clockSpeed
                    \/ deviceConfigs[i].config.riseTime # currentConfig.riseTime) =>
                    last'.selected = <<activeValues(deviceConfigs[i].config)>>
          /\ (\/ ~adaptiveMode
              \/ \A i \in Registered(last'.addr) : ~deviceConfigs[i].hasCustomConfig) =>
                last'.selected = <<activeValues(currentConfig)>>
          /\ last'.op = "beginTransmission" =>
                <<activeValues(currentConfig')>> = last'.selected]_vars

\* C9 witness: a transaction to an address without override ran with the
\* values of another address's override still active
C9_Witness ==
    /\ last.op = "requestFrom"
    /\ adaptiveMode
    /\ \A i \in Registered(last.addr) : ~deviceConfigs[i].hasCustomConfig
    /\ \E i \in 1..Len(deviceConfigs) :
          /\ deviceConfigs[i].address # last.addr
          /\ deviceConfigs[i].hasCustomConfig
          /\ last.selected = <<activeValues(deviceConfigs[i].config)>>
          /\ deviceConfigs[i].config.clockSpeed # clockSpeedRangeStatic.default_value

\* score(m) as stated: from the snapshot's own counters, in thousandths
SnapshotScore(m, stability) ==
    IF m.successfulTransactions = 0 THEN 0
    ELSE (((m.successfulTransactions * 100000)
              \div (m.successfulTransactions + m.failedTransactions)) * 60
          + (100000000 \div (1000 + m.averageTransactionTime)) * 25
          + stability * 15) \div 100

\* C10 (as stated): the score the decision engine computes for
\* bestConfig.metrics is 0 if its success count is 0 and otherwise
\* 0.60*reliability + 0.25*efficiency + 0.15*stability with reliability and
\* efficiency from bestConfig's own counters.
C10_ScoreOfSnapshot ==
    EvaluatedOutsideCooldown =>
        last.bestScore = SnapshotScore(AtEval.bestConfig.metrics,
                                       calculateStabilityScore(AtEval))

\* every metrics snapshot the controller holds
Snapshots ==
    {currentConfig.metrics, bestConfig.metrics}
        \cup {deviceConfigs[i].config.metrics : i \in 1..Len(deviceConfigs)}
        \cup {performanceHistory[i] : i \in 1..LEARNING_WINDOW_SIZE}

AllZero(m) ==
    /\ m.successfulTransactions = 0 /\ m.failedTransactions = 0
    /\ m.totalTransactionTime = 0 /\ m.averageTransactionTime = 0
    /\ m.errorRate = 0

\* C11: for every metrics snapshot held by the controller (current, best,
\* per-device, history) score(metrics) lies in [0, 100] (thousandths here), and
\* the score of an all-zero snapshot is exactly 0.
C11_ScoreInRange ==
    \A m \in Snapshots :
        /\ calculatePerformanceScore(State, m) \in 0..100000
        /\ AllZero(m) => calculatePerformanceScore(State, m) = 0

\* C11 witness: the best and a device snapshot are non-empty and score above
\* 0 while the current epoch has failures, next to all-zero history entries
C11_Witness ==
    /\ bestConfig.metrics.successfulTransactions > 0
    /\ calculatePerformanceScore(State, bestConfig.metrics) > 0
    /\ currentConfig.metrics.failedTransactions > 0
    /\ \E i \in 1..Len(deviceConfigs) :
          calculatePerformanceScore(State, deviceConfigs[i].config.metrics) > 0
    /\ \E i \in 1..LEARNING_WINDOW_SIZE : AllZero(performanceHistory[i])

\* the step -> value -> step round trip on a range
RoundTrip(range, step) == calculateStepFromValue(range, calculateValueFromStep(range, step))

RangeLaws(range) ==
    \A step \in 0..(DYNAMIC_RANGE_STEPS - 1) :
        /\ calculateValueFromStep(range, step) >= range.min_value
        /\ calculateValueFromStep(range, step) <= range.max_value
        /\ step > 0 => calculateValueFromStep(range, step - 1)
                           <= calculateValueFromStep(range, step)
        /\ RoundTrip(range, step) \in {step - 1, step}

\* C12: for both ranges and every step s in [0, STEPS-1],
\* calculateValueFromStep(s) is non-decreasing in s and within [min, max], and
\* calculateStepFromValue(calculateValueFromStep(s)) is s or s - 1.
C12_StepValueRoundTrip ==
    /\ clockSpeedRange.min_value = 75000 /\ clockSpeedRange.max_value = 3500000
    /\ riseTimeRange.min_value = 40 /\ riseTimeRange.max_value = 250
    /\ RangeLaws(clockSpeedRange)
    /\ RangeLaws(riseTimeRange)

\* C12 witness: setClockSpeed and setRiseTime have converted values, and on
\* each range the round trip truncates to s - 1 for some step and returns s
\* for another step above 0
C12_Witness ==
    /\ last.op = "setRiseTime"
    /\ currentConfig.clockSpeedStep > 0
    /\ \A range \in {clockSpeedRange, riseTimeRange} :
          /\ \E step \in 1..(DYNAMIC_RANGE_STEPS - 1) : RoundTrip(range, step) = step - 1
          /\ \E step \in 1..(DYNAMIC_RANGE_STEPS - 1) : RoundTrip(range, step) = step

\* C13 (as stated): in every reachable state, the freshly constructed
\* controller included, both current steps are in [0, STEPS-1] and the current
\* resolved values (the range's current_value and currentConfig.clockSpeed /
\* riseTime) equal min + trunc(step * step_size) for the current step.
C13_ValueOfCurrentStep ==
    /\ clockSpeedRange.current_step \in 0..(DYNAMIC_RANGE_STEPS - 1)
    /\ riseTimeRange.current_step \in 0..(DYNAMIC_RANGE_STEPS - 1)
    /\ currentConfig.clockSpeedStep \in 0..(DYNAMIC_RANGE_STEPS - 1)
    /\ currentConfig.riseTimeStep \in 0..(DYNAMIC_RANGE_STEPS - 1)
    /\ clockSpeedRange.current_value =
           calculateValueFromStep(clockSpeedRange, clockSpeedRange.current_step)
    /\ riseTimeRange.current_value =
           calculateValueFromStep(riseTimeRange, riseTimeRange.current_step)
    /\ currentConfig.clockSpeed =
           calculateValueFromStep(clockSpeedRange, currentConfig.clockSpeedStep)
    /\ currentConfig.riseTime =
           calculateValueFromStep(riseTimeRange, currentConfig.riseTimeStep)

\* the derived fields of a metrics record agree with its counters
Derived(m) ==
    /\ m.errorRate =
          IF m.successfulTransactions + m.failedTransactions > 0
          THEN (m.failedTransactions * 100)
                   \div (m.successfulTransactions + m.failedTransactions)
          ELSE 0
    /\ m.successfulTransactions > 0 =>
          m.averageTransactionTime = m.totalTransactionTime \div m.successfulTransactions

\* C14 (as stated): after every public operation, the current metrics, the
\* best metrics and the metrics embedded in each registered device have
\* errorRate = floor(100*fail/(success+fail)) when success+fail > 0 and 0
\* otherwise, and averageTime = floor(totalTime/success) when success > 0.
C14_DerivedMetrics ==
    /\ Derived(currentConfig.metrics)
    /\ Derived(bestConfig.metrics)
    /\ \A i \in 1..Len(deviceConfigs) : Derived(deviceConfigs[i].config.metrics)

\* C15 (as stated): whenever an operation changes the active (clockSpeedStep,
\* riseTimeStep) pair of currentConfig, that operation resets the current
\* metrics counters to zero.
C15_EpochResetsMetrics ==
    [][(\/ currentConfig'.clockSpeedStep # currentConfig.clockSpeedStep
        \/ currentConfig'.riseTimeStep # currentConfig.riseTimeStep) =>
          /\ currentConfig'.metrics.successfulTransactions = 0
          /\ currentConfig'.metrics.failedTransactions = 0
          /\ currentConfig'.metrics.totalTransactionTime = 0]_vars

\* clamp(step + delta, 0, STEPS-1)
Clamped(step, delta) == Max(0, Min(step + delta, DYNAMIC_RANGE_STEPS - 1))

\* C16: applying a decision with deltas (dc, dr) in {-1,0,+1}^2 from steps
\* (c, r) yields steps (clamp(c+dc, 0, STEPS-1), clamp(r+dr, 0, STEPS-1)),
\* zeroes the current metrics and sets lastAdjustmentTime to now, also when
\* a delta is absorbed at the boundary.
C16_DecisionClampsAndCommits ==
    [][(ops' # ops /\ last'.op = "applyAIDecision") =>
          /\ currentConfig'.clockSpeedStep =
                Clamped(currentConfig.clockSpeedStep, last'.decision.clockSpeedDelta)
          /\ currentConfig'.riseTimeStep =
                Clamped(currentConfig.riseTimeStep, last'.decision.riseTimeDelta)
          /\ currentConfig'.metrics.successfulTransactions = 0
          /\ currentConfig'.metrics.failedTransactions = 0
          /\ currentConfig'.metrics.totalTransactionTime = 0
          /\ currentConfig'.metrics.averageTransactionTime = 0
          /\ currentConfig'.metrics.errorRate = 0
          /\ lastAdjustmentTime' = now]_vars

\* C16 witness: a decision with clock delta +1 and rise delta -1 was applied
\* at the top clock step and the bottom rise step, after transactions had
\* been counted and at a time after 0: both deltas were absorbed
C16_Witness ==
    /\ last.op = "applyAIDecision"
    /\ last.decision.clockSpeedDelta = 1 /\ last.decision.riseTimeDelta = -1
    /\ AtEval.currentConfig.clockSpeedStep = DYNAMIC_RANGE_STEPS - 1
    /\ AtEval.currentConfig.riseTimeStep = 0
    /\ AtEval.currentConfig.metrics.successfulTransactions > 0
    /\ currentConfig.clockSpeedStep = DYNAMIC_RANGE_STEPS - 1
    /\ currentConfig.riseTimeStep = 0
    /\ lastAdjustmentTime = now /\ now > 0

\* C17: after any sequence of transactions, scanBus, setDeviceSpecificConfig
\* and removeDeviceConfig calls the registered addresses are pairwise
\* distinct and deviceCount <= MAX_DEVICES; a registration attempted on a
\* full registry leaves the registry unchanged and raises no error.
C17_RegistryDistinctAndBounded ==
    /\ [](/\ Len(deviceConfigs) <= MAX_DEVICES
          /\ \A i, j \in 1..Len(deviceConfigs) :
                deviceConfigs[i].address = deviceConfigs[j].address => i = j)
    /\ [][(/\ ops' # ops
           /\ Len(deviceConfigs) = MAX_DEVICES
           /\ \/ last'.op = "scanBus"
              \/ /\ last'.op \in {"requestFrom", "setDeviceSpecificConfig"}
                 /\ Registered(last'.addr) = {}) =>
             /\ deviceConfigs' = deviceConfigs
             /\ last'.op # "requestFrom" => lastError' = lastError]_vars

\* C17 witness: the registry is full, and the last call was a transaction
\* with an address it does not hold
C17_Witness ==
    /\ Len(deviceConfigs) = MAX_DEVICES
    /\ last.op = "requestFrom"
    /\ Registered(last.addr) = {}
    /\ Registered(2) # {}

\* the registry without the entries of an address, in the same order
Without(address) ==
    LET others(entry) == entry.address # address
    IN SelectSeq(deviceConfigs, others)

\* C18: removeDeviceConfig(A) with A registered decreases deviceCount by one
\* and every other registered device keeps its stored contents and its
\* position relative to the others; with A not registered it changes nothing.
C18_RemoveKeepsOthers ==
    [][(ops' # ops /\ last'.op = "removeDeviceConfig") =>
          IF Registered(last'.addr) # {}
          THEN /\ Len(deviceConfigs') = Len(deviceConfigs) - 1
               /\ deviceConfigs' = Without(last'.addr)
          ELSE UNCHANGED ctl]_vars

\* C18 witness: the device removed last stood between two others, which are
\* still registered, in a registry that had been full
C18_Witness ==
    /\ last.op = "removeDeviceConfig"
    /\ Registered(last.addr) = {}
    /\ Len(deviceConfigs) = MAX_DEVICES - 1
    /\ deviceConfigs[1].address < last.addr
    /\ deviceConfigs[Len(deviceConfigs)].address > last.addr

\* the two ranges of a freshly constructed controller
FreshClockSpeedRange == initializeDynamicRange(clockSpeedRangeStatic)
FreshRiseTimeRange == initializeDynamicRange(riseTimeRangeStatic)

\* C19: after resetToDefaults, from any reachable state, the clock and
\* rise-time steps and resolved values, the mode flags, the cooldown, the
\* adaptation rate and consecutiveErrors equal those of a freshly constructed
\* controller (clock 100000, rise time 125), and bestConfig = currentConfig.
C19_ResetRestoresFresh ==
    [][(ops' # ops /\ last'.op = "resetToDefaults") =>
          /\ currentConfig'.clockSpeedStep = FreshClockSpeedRange.current_step
          /\ currentConfig'.riseTimeStep = FreshRiseTimeRange.current_step
          /\ currentConfig'.clockSpeed = FreshClockSpeedRange.current_value
          /\ currentConfig'.riseTime = FreshRiseTimeRange.current_value
          /\ learningMode' /\ adaptiveMode' /\ emergencyRecovery'
          /\ adjustmentCooldown' = DEFAULT_COOLDOWN
          /\ adaptationRate' = DEFAULT_ADAPTATION_RATE
          /\ consecutiveErrors' = 0
          /\ bestConfig' = currentConfig']_vars

\* C20: resetLearning leaves currentConfig's steps and resolved values,
\* bestConfig, the device registry, the three mode flags, adaptationRate and
\* adjustmentCooldown unchanged, and clears the performance history, the
\* current metrics, the error history, consecutiveErrors and
\* lastAdjustmentTime.
C20_ResetLearningFrame ==
    [][(ops' # ops /\ last'.op = "resetLearning") =>
          /\ activeValues(currentConfig') = activeValues(currentConfig)
          /\ UNCHANGED <<bestConfig, deviceConfigs, learningMode, adaptiveMode,
                         emergencyRecovery, adaptationRate, adjustmentCooldown>>
          /\ \A i \in 1..LEARNING_WINDOW_SIZE :
                /\ performanceHistory'[i].successfulTransactions = 0
                /\ performanceHistory'[i].failedTransactions = 0
                /\ performanceHistory'[i].totalTransactionTime = 0
          /\ historyIndex' = 0
          /\ currentConfig'.metrics.successfulTransactions = 0
          /\ currentConfig'.metrics.failedTransactions = 0
          /\ currentConfig'.metrics.totalTransactionTime = 0
          /\ currentConfig'.metrics.averageTransactionTime = 0
          /\ currentConfig'.metrics.errorRate = 0
          /\ \A i \in 0..(ERROR_HISTORY_SIZE - 1) : errorHistory'[i] = ERROR_NONE
          /\ consecutiveErrors' = 0
          /\ lastAdjustmentTime' = 0]_vars

\* C20 witness: resetLearning ran after an adjustment had been applied
\* (lastAdjustmentTime set), with a failed transaction counted and recorded
\* in the error history, a device registered and the steps off their initial
\* values; the steps and the registry are still there, the rest is cleared
C20_Witness ==
    /\ last.op = "resetLearning"
    /\ AtEval.lastAdjustmentTime > 0
    /\ AtEval.currentConfig.metrics.failedTransactions > 0
    /\ AtEval.consecutiveErrors > 0
    /\ AtEval.errorHistoryIndex > 0
    /\ currentConfig.riseTimeStep # FreshRiseTimeRange.current_step
    /\ Len(deviceConfigs) > 0
    /\ lastAdjustmentTime = 0
    /\ consecutiveErrors = 0
    /\ currentConfig.metrics.failedTransactions = 0

\* C21: adaptationRate is in [1,10] in every reachable state, and
\* setAdaptationRate(r) stores 1 for r < 1, 10 for r > 10 and r otherwise.
C21_AdaptationRateClamped ==
    /\ [](adaptationRate \in 1..10)
    /\ [][(ops' # ops /\ last'.op = "setAdaptationRate") =>
             adaptationRate' = IF last'.arg < 1 THEN 1
                               ELSE IF last'.arg > 10 THEN 10
                               ELSE last'.arg]_vars

\* C21 witness: setAdaptationRate(0) has stored 1, as the second call or later
C21_Witness ==
    /\ last.op = "setAdaptationRate"
    /\ last.arg = 0
    /\ adaptationRate = 1
    /\ ops >= 2

\* the last call was a successful transaction, its decision was evaluated
\* outside the cooldown, and until then the controller had seen n successes
\* and nothing else: no failure, no adjustment, bestConfig as constructed
FreshRunEvaluated(n) ==
    /\ last.op = "requestFrom"
    /\ EvaluatedOutsideCooldown
    /\ AtEval.currentConfig.metrics.successfulTransactions = n
    /\ AtEval.currentConfig.metrics.failedTransactions = 0
    /\ AtEval.errorHistoryIndex = 0
    /\ AtEval.lastAdjustmentTime = 0
    /\ AtEval.bestConfig.metrics = ZeroMetrics

\* C22: on a fresh controller with the cooldown elapsed, after 25 successes
\* and no failure errorRate = 0 and the score is positive, and the decision
\* at the 25th transaction is a no-op whose only effect is that bestConfig
\* becomes a copy of currentConfig with its 25-success metrics; the
\* decisions at transactions 5, 10, 15 and 20 change no state.
C22_FreshRunPromotesBest ==
    /\ FreshRunEvaluated(25) =>
          /\ currentConfig.metrics.errorRate = 0
          /\ performanceScore > 0
          /\ ~last.decision.shouldAdjust
          /\ last.decision.clockSpeedDelta = 0 /\ last.decision.riseTimeDelta = 0
          /\ Fields(State) = [AtEval EXCEPT !.bestConfig = AtEval.currentConfig]
          /\ bestConfig.metrics.successfulTransactions = 25
    /\ \A n \in {5, 10, 15, 20} :
          FreshRunEvaluated(n) =>
             /\ ~last.decision.shouldAdjust
             /\ Fields(State) = AtEval

\* C22 witness: the decision at the 25th success of a fresh run was taken
\* and the current configuration was promoted
C22_Witness ==
    /\ FreshRunEvaluated(25)
    /\ last.decision.reason = "New best configuration found"
    /\ bestConfig = currentConfig

\* C23: every failed transaction (a non-zero endTransmission code, a
\* zero-byte requestFrom) increments the fail counter and consecutiveErrors,
\* and the classification written to the error history and to lastError is
\* one of Timeout, AddressNack, DataNack, Other, never None.
C23_FailureRecorded ==
    [][(/\ ops' # ops
        /\ last'.op \in {"endTransmission", "requestFrom"}
        /\ last'.failed) =>
          /\ currentConfig'.metrics.failedTransactions =
                currentConfig.metrics.failedTransactions + 1
          /\ last'.reached = consecutiveErrors + 1
          /\ lastError' \in {ERROR_TIMEOUT, ERROR_NACK_ADDRESS, ERROR_NACK_DATA,
                             ERROR_OTHER}
          /\ errorHistory'[errorHistoryIndex] = lastError']_vars

\* getDeviceMetrics(address): the success and fail counts stored for the
\* address, <<>> when it is not registered
DeviceCounts(configs, address) ==
    LET hits == {i \in 1..Len(configs) : configs[i].address = address}
        first == CHOOSE i \in hits : \A j \in hits : i <= j
    IN IF hits = {} THEN <<>>
       ELSE <<configs[first].config.metrics.successfulTransactions,
              configs[first].config.metrics.failedTransactions>>

\* the counts one transaction adds
OneTransaction(failed) == IF failed THEN <<0, 1>> ELSE <<1, 0>>

\* C24: in adaptive mode the per-device counters count that device's
\* transactions only: a transaction to A adds one to A's success or fail
\* count and leaves the counts of every other address alone, and a device
\* created by its first transaction reports exactly that one transaction.
C24_DeviceCountsOwnTransactions ==
    [][(ops' # ops /\ last'.op = "requestFrom" /\ adaptiveMode) =>
          \A address \in Addrs :
             LET before == DeviceCounts(deviceConfigs, address)
                 after == DeviceCounts(deviceConfigs', address)
                 one == OneTransaction(last'.failed)
             IN IF address # last'.addr THEN after = before
                ELSE IF before = <<>> THEN after = one
                ELSE after = <<before[1] + one[1], before[2] + one[2]>>]_vars

\* the steps a uint8_t can hold beyond the last valid one
InvalidSteps == {DYNAMIC_RANGE_STEPS, DYNAMIC_RANGE_STEPS + 1, 255}

\* C25: testConfiguration with either step >= DYNAMIC_RANGE_STEPS returns
\* false and leaves currentConfig, the metrics and the dynamic ranges
\* unchanged; updateDynamicRange with such a step leaves the range's step and
\* value unchanged; a testConfiguration that returns false for valid steps
\* leaves currentConfig as it was before the call.
C25_InvalidStepsRejected ==
    /\ [](\A step \in InvalidSteps :
            /\ updateDynamicRange(clockSpeedRange, step) = clockSpeedRange
            /\ updateDynamicRange(riseTimeRange, step) = riseTimeRange)
    /\ [][(ops' # ops /\ last'.op = "testConfiguration") =>
             /\ (last'.steps[1] >= DYNAMIC_RANGE_STEPS
                  \/ last'.steps[2] >= DYNAMIC_RANGE_STEPS) =>
                    ~last'.passed /\ UNCHANGED ctl
             /\ ~last'.passed => currentConfig' = currentConfig]_vars

\* C25 witness: a test with valid steps has failed on its third silent
\* device, on a controller that had counted transactions at another step
C25_Witness ==
    /\ last.op = "testConfiguration"
    /\ last.steps = <<5, 12>>
    /\ ~last.passed
    /\ Len(deviceConfigs) >= 3
    /\ currentConfig.metrics.successfulTransactions > 0
    /\ currentConfig.clockSpeedStep # 5

\* the last call was a transaction
Transacted == last.op \in {"requestFrom", "endTransmission"}

\* C26: within one transaction the decision engine is evaluated only if the
\* transaction succeeded, learningMode is on and the current total
\* (success + fail, this transaction included) is a positive multiple of
\* PERFORMANCE_SAMPLES; a failed transaction never evaluates it, the one in
\* which a recovery tier fires included.
C26_DecisionOrRecovery ==
    [][(ops' # ops /\ Transacted') =>
          /\ last'.evaluated =>
                /\ ~last'.failed
                /\ learningMode
                /\ (currentConfig.metrics.successfulTransactions
                    + currentConfig.metrics.failedTransactions + 1)
                   % PERFORMANCE_SAMPLES = 0
          /\ last'.failed => ~last'.evaluated
          /\ last'.tiers # <<>> => ~last'.evaluated /\ last'.failed]_vars

\* C26 witness: the fifth transaction of the epoch failed with learning on
\* until then, a recovery tier fired in it, and no decision was evaluated
C26_Witness ==
    /\ Transacted
    /\ last.failed
    /\ last.tiers # <<>>
    /\ ~last.evaluated
    /\ currentConfig.metrics.successfulTransactions
       + currentConfig.metrics.failedTransactions = PERFORMANCE_SAMPLES

\* C27: after the emergency procedure has set learningMode = false,
\* learning is re-enabled once the extended cooldown (15000 ms from the
\* recovery) has elapsed and transactions continue, without a call of
\* enableLearning(true) or resetToDefaults.
C27_LearningResumes ==
    [][(/\ ops' # ops /\ Transacted' /\ ~last'.failed
        /\ ~learningMode
        /\ adjustmentCooldown = EMERGENCY_COOLDOWN
        /\ now - lastAdjustmentTime >= adjustmentCooldown) =>
          learningMode']_vars

\* what the emergency procedure would do in a step: learning switched off,
\* the cooldown extended, the steps moved to (0, STEPS-1) from further than
\* one retreat away
EmergencyEffect ==
    \/ learningMode /\ ~learningMode'
    \/ adjustmentCooldown' # adjustmentCooldown
    \/ \E i \in 1..Len(last'.tiers) : last'.tiers[i] = "emergency"
    \/ /\ currentConfig'.clockSpeedStep = 0
       /\ currentConfig'.riseTimeStep = DYNAMIC_RANGE_STEPS - 1
       /\ \/ currentConfig.clockSpeedStep > 1
          \/ currentConfig.riseTimeStep < DYNAMIC_RANGE_STEPS - 2

\* a failed transaction with emergency recovery disabled
FailedWithEmergencyOff ==
    ops' # ops /\ Transacted' /\ last'.failed /\ ~emergencyRecovery

\* C28 (as stated): after enableEmergencyRecovery(false) no failure disables
\* learning mode, sets adjustmentCooldown to 15000 or jumps the steps to
\* (0, STEPS-1) in one recovery, whatever adaptiveMode and the error
\* classifications are.
C28_EmergencyOnlyWhenEnabled ==
    [][FailedWithEmergencyOff => ~EmergencyEffect]_vars

\* C28 (amended): with emergency recovery disabled a failure does none of
\* this when adaptive mode is off, or when the adaptive tier reads a
\* recentErrorRate() of 20% or less; with adaptive mode on and a rate above
\* 20% the adaptive tier still runs the emergency procedure.
C28_EmergencyOnlyByEscalation ==
    [][FailedWithEmergencyOff =>
          IF adaptiveMode /\ RateAfter > 20 /\ last'.tiers # <<>>
          THEN last'.tiers = <<"adaptive", "emergency">> /\ ~learningMode'
          ELSE ~EmergencyEffect]_vars

\* C28 witness: with emergency recovery disabled and learning on, a failure
\* entered the adaptive tier, which retreated without escalating
C28_Witness ==
    /\ Transacted /\ last.failed
    /\ last.tiers = <<"adaptive">>
    /\ ~emergencyRecovery /\ adaptiveMode
    /\ learningMode
    /\ adjustmentCooldown = DEFAULT_COOLDOWN

\* C29: between public operations consecutiveErrors is in {0, 1, 2}: a
\* failure that raises it to ERROR_THRESHOLD is followed in the same call by
\* a recovery tier that resets it, so isInRecoveryMode() is false wherever a
\* caller can query it.
C29_NeverInRecoveryMode ==
    /\ consecutiveErrors \in 0..(ERROR_THRESHOLD - 1)
    /\ ~isInRecoveryMode(State)
    /\ (Transacted /\ last.reached >= ERROR_THRESHOLD) =>
          last.tiers # <<>> /\ consecutiveErrors = 0

\* C29 witness: a failure raised consecutiveErrors to the threshold and the
\* incremental tier reset it in the same call
C29_Witness ==
    /\ Transacted /\ last.failed
    /\ last.reached = ERROR_THRESHOLD
    /\ last.tiers = <<"incremental">>
    /\ consecutiveErrors = 0

\* C30: no public operation appends a snapshot to the performance history:
\* historyIndex is 0 in every reachable state, so trend() is 0 and the
\* stability term is the neutral 50 in every decision cycle, and no decision
\* has clockSpeedDelta = +1 ('positive trend' and 'moderate optimization'
\* are never produced).
C30_HistoryNeverGrows ==
    /\ historyIndex = 0
    /\ analyzeTrend(State) = 0
    /\ calculateStabilityScore(State) = 50000
    /\ last.evaluated =>
          /\ AtEval.historyIndex = 0
          /\ last.decision.clockSpeedDelta # 1
          /\ last.decision.reason \notin {"Positive trend, optimizing speed",
                                          "Moderate optimization"}

\* C30 witness: a decision was evaluated outside the cooldown with no error,
\* more than 20 successes and an adaptation rate above 3, where a positive
\* trend would have raised the clock step, and adjusted nothing
C30_Witness ==
    /\ EvaluatedOutsideCooldown
    /\ AtEval.currentConfig.metrics.errorRate = 0
    /\ AtEval.currentConfig.metrics.successfulTransactions > 20
    /\ AtEval.adaptationRate > 3
    /\ last.rate <= 10
    /\ ~last.decision.shouldAdjust

\* C31: a transaction, forceOptimization, resetLearning or a change of a
\* mode, the cooldown or the adaptation rate, on a controller without custom
\* device configurations, never increases clockSpeedStep and never decreases
\* riseTimeStep: self-adjustment only moves towards (0, STEPS-1).
C31_TowardsConservativeCorner ==
    [][(ops' # ops /\ last'.op # "setClockSpeed") =>
          /\ currentConfig'.clockSpeedStep <= currentConfig.clockSpeedStep
          /\ currentConfig'.riseTimeStep >= currentConfig.riseTimeStep]_vars

\* C31 witness: a decision of the engine was applied and moved the clock
\* step down from a step the setter had chosen and the rise-time step up
C31_Witness ==
    /\ last.evaluated /\ last.applied
    /\ last.op \in {"requestFrom", "endTransmission", "forceOptimization"}
    /\ currentConfig.clockSpeedStep < AtEval.currentConfig.clockSpeedStep
    /\ currentConfig.riseTimeStep > AtEval.currentConfig.riseTimeStep

\* a step that is one successful transaction
SucceededStep == Transacted' /\ ~last'.failed /\ now' = now /\ ctl' # ctl

\* C32: the error history is written only on failures: a successful
\* transaction leaves it and recentErrorRate() as they were; and with two
\* failures classified non-None in the ring (rate >= 20%) every decision
\* evaluated outside the cooldown is the 'high error rate' decision, however
\* many successes have followed the failures.
C32_ErrorHistoryOutlastsSuccess ==
    /\ [][SucceededStep =>
             /\ errorHistory' = errorHistory
             /\ errorHistoryIndex' = errorHistoryIndex
             /\ getRecentErrorRate([errorHistory |-> errorHistory'])
                  = getRecentErrorRate(State)]_vars
    /\ []((EvaluatedOutsideCooldown /\ getRecentErrorRate(AtEval) >= 20) =>
             last.decision = HighErrorDecision /\ last.applied)

\* C32 witness: after an applied adjustment had reset the metrics, a decision
\* was evaluated outside the cooldown in an epoch of successes only, with the
\* two earlier failures still in the ring, and was the 'high error rate' one
C32_Witness ==
    /\ EvaluatedOutsideCooldown
    /\ AtEval.currentConfig.metrics.failedTransactions = 0
    /\ AtEval.currentConfig.metrics.successfulTransactions > 0
    /\ getRecentErrorRate(AtEval) = 20
    /\ last.decision = HighErrorDecision
    /\ currentConfig.riseTimeStep >= FreshRiseTimeRange.current_step + 2

\* score(current) at the last evaluation of the decision engine
CurrentScoreAtEval == calculatePerformanceScore(AtEval, AtEval.currentConfig.metrics)

\* C33: in every decision evaluation (from a successful transaction or from
\* forceOptimization) the current success count is > 0, so score(current) > 0
\* and score(best) is 0 or equal to score(current); score(current) <
\* 0.7 * score(best) never holds and restoreBestConfiguration never runs.
C33_NeverRestoresBest ==
    last.evaluated =>
       /\ AtEval.currentConfig.metrics.successfulTransactions > 0
       /\ CurrentScoreAtEval > 0
       /\ last.bestScore \in {0, CurrentScoreAtEval}
       /\ ~(CurrentScoreAtEval * 10 < last.bestScore * 7)
       /\ last.decision.reason # "Restoring best configuration"
       /\ activeValues(last.afterEval[1].currentConfig)
            = activeValues(AtEval.currentConfig)

\* C33 witness: the engine ran outside the cooldown with a configuration
\* promoted to best on 25 successes, in a later epoch in which half of the
\* transactions or more had failed
C33_Witness ==
    /\ EvaluatedOutsideCooldown
    /\ AtEval.bestConfig.metrics.successfulTransactions >= 25
    /\ AtEval.currentConfig.metrics.successfulTransactions < 5
    /\ AtEval.currentConfig.metrics.errorRate >= 50
    /\ last.bestScore > 0

====
